---- MODULE Spec2Model ----
(***************************************************************************)
(* Luna SDK, python package: the refreshable-token credential provider     *)
(* (luna/auth/token.py, class TokenAuth) as a state machine.               *)
(*                                                                         *)
(* One TokenAuth instance is shared by NumCallers asyncio tasks.  A step   *)
(* of the model is the code a task runs between two suspension points     *)
(* (await on the lock, await on client.post, await on the callback): the   *)
(* event loop is single-threaded, so that code runs atomically.            *)
(* Time is counted in seconds since the construction of the instance.      *)
(***************************************************************************)
EXTENDS Integers, Sequences, FiniteSets, TLC

\* ---- bounds of the model -------------------------------------------------
NumCallers == 2      \* tasks sharing the instance
MaxCalls == 2        \* get_headers()/refresh() calls in a run
MaxUpdates == 1      \* update_tokens() calls in a run
MaxNow == 1          \* seconds the clock may advance

Callers == 1..NumCallers

\* ---- optional values (None / a value) ------------------------------------
None == <<>>
Some(x) == <<x>>

\* ---- tokens: <<name, serial>> --------------------------------------------
EmptyStr == <<"", 0>>
InitAccess == <<"init_access", 0>>
InitRefresh == <<"init_refresh", 0>>
NewAccess(n) == <<"access", n>>
NewRefresh(n) == <<"refresh", n>>
UpdAccess(k) == <<"upd_access", k>>
UpdRefresh(k) == <<"upd_refresh", k>>

\* ---- needs_refresh -------------------------------------------------------
BufferMinutes == 5
Buffer == BufferMinutes * 60

\* a variant that takes a missing expiry for an expired one
needs_refresh_NoneIsStale(exp, t) ==
    IF exp = None THEN TRUE ELSE t + Buffer >= exp[1]

\* a variant that takes the boundary instant for fresh
needs_refresh_Strict(exp, t) ==
    IF exp = None THEN FALSE ELSE t + Buffer > exp[1]

\* lines 57-62
needs_refresh(exp, t) ==
    IF exp = None THEN FALSE ELSE t + Buffer >= exp[1]

\* `not self._refresh_token`: None and the empty string are both falsy
NoRefreshToken(rt) == rt = None \/ rt = Some(EmptyStr)

\* ---- inputs --------------------------------------------------------------
\* relative expiries (seconds) the token endpoint may return
ExpiresInSet == {Buffer, Buffer + 1}

\* expires_at given to the constructor (the instance is built at time 0)
InitExpiries == {None} \cup {Some(e) : e \in ExpiresInSet}

NoData == [access_token |-> None, refresh_token |-> None, expires_in |-> None]

NoAnswer == [status |-> "none", json_ok |-> FALSE, data |-> NoData]

OkData(n, e) ==
    [access_token |-> Some(NewAccess(n)), refresh_token |-> Some(NewRefresh(n)),
     expires_in |-> Some(e)]

\* what the n-th POST to the token endpoint can come back with
Responses(n) ==
    {[status |-> "transport", json_ok |-> FALSE, data |-> NoData],
     [status |-> "non2xx", json_ok |-> TRUE, data |-> NoData],
     [status |-> "2xx", json_ok |-> FALSE, data |-> NoData]}
    \cup {[status |-> "2xx", json_ok |-> TRUE, data |-> OkData(n, e)] : e \in ExpiresInSet}
    \cup {[status |-> "2xx", json_ok |-> TRUE,
           data |-> [OkData(n, Buffer + 1) EXCEPT ![k] = None]] :
             k \in {"access_token", "refresh_token", "expires_in"}}

\* TokenPair values handed to the k-th update_tokens call
UpdatePairs(k) ==
    [access_token : {UpdAccess(k)},
     refresh_token : {None, Some(UpdRefresh(k))},
     expires_at : {None, Some(Buffer)}]

\* lines 87-91: the TokenPair built from the state
TokenPair(st) == [access_token |-> st[1], refresh_token |-> st[2], expires_at |-> st[3]]

\* no TokenPair was built yet
NoPair == [access_token |-> EmptyStr, refresh_token |-> None, expires_at |-> None]

\* ---- results of a call ---------------------------------------------------
NoHeader == <<"", EmptyStr>>
Pending == [kind |-> "pending", Authorization |-> NoHeader, error |-> ""]
Headers(tok) == [kind |-> "headers", Authorization |-> <<"Bearer", tok>>, error |-> ""]
ReturnsNone == [kind |-> "none", Authorization |-> NoHeader, error |-> ""]
Raises(err) == [kind |-> "raise", Authorization |-> NoHeader, error |-> err]

\* sources of the values of the state
InitSrc == <<"init", 0>>

\* ===========================================================================
\* Webhook verification: luna/resources/payments/{payfast,ozow,yoco}.py and
\* luna/resources/messaging/whatsapp.py.
\*
\* A string is a sequence of characters; a key of a payload or a status word
\* is one character of its own.  A digest is kept as what was hashed, so two
\* digests are equal exactly when algorithm, key and message are equal (the
\* hash functions are taken to be free of collisions).
\* ===========================================================================
MaxVerifies == 2     \* verify_webhook calls on one delivered payload

\* str.lower(), character by character
LowerChar(ch) == IF ch = "A" THEN "a" ELSE IF ch = "K" THEN "k" ELSE ch

lower(s) == [i \in 1..Len(s) |-> LowerChar(s[i])]

\* str.replace(old, new) for one-character old and new
replace(s, old, new) == [i \in 1..Len(s) |-> IF s[i] = old THEN new ELSE s[i]]

\* sep.join(parts)
RECURSIVE join(_, _)
join(sep, parts) ==
    IF Len(parts) = 0 THEN <<>>
    ELSE IF Len(parts) = 1 THEN parts[1]
    ELSE parts[1] \o sep \o join(sep, Tail(parts))

\* hashlib.<alg>(msg).hexdigest() and hmac.new(key, msg, <alg>).hexdigest():
\* a string of lower-case hexadecimal digits
hexdigest(alg, key, msg) ==
    [prefix |-> "", alg |-> alg, key |-> key, msg |-> msg, upper |-> FALSE]

\* the empty string, where a signature is expected
EmptySig == [prefix |-> "", alg |-> "", key |-> <<>>, msg |-> <<>>, upper |-> FALSE]

\* str.lower() of a signature
sig_lower(sig) == [sig EXCEPT !.upper = FALSE]

\* f"sha256={digest}"
WithPrefix(pre, sig) == [sig EXCEPT !.prefix = pre]

\* what verify_webhook returns or raises
Returned(b) == [kind |-> "return", value |-> b, error |-> ""]
Raised(err) == [kind |-> "raise", value |-> FALSE, error |-> err]

\* A payload as the application holds it: data are the fields other than the
\* signature, order is the sequence of their keys as the mapping iterates
\* (the order of insertion), sig is the entry "signature" (PayFast) or "Hash"
\* (Ozow) of the mapping, None when the mapping has no such key.  For Yoco and WhatsApp
\* data has the one field "body", the raw payload, and sig is the signature
\* argument.
NoPayload == [data |-> <<>>, sig |-> None, order |-> <<>>]

\* the signature that came with the payload: payload.pop(key, "") of the
\* mapping, the signature argument of Yoco and WhatsApp
signature(payload) == IF payload.sig = None THEN EmptySig ELSE payload.sig[1]

\* the mapping that payload.pop(key, "") leaves behind
AfterPop(payload) == [payload EXCEPT !.sig = None]

\* A value of a field is a string or a number; the number n is the sequence
\* of the mark "#" and the digits of n, and no string of the model starts
\* with the mark.
IsNumber(x) == Len(x) > 0 /\ x[1] = "#"

\* int(s), float(s), Decimal(s) of a string of digits
number(s) == IF IsNumber(s) THEN s ELSE <<"#">> \o s

\* bool(x): the empty string and the number zero are falsy
truthy(x) == x # <<>> /\ x # <<"#", "0">>

\* the keys of the PayFast payloads of the model, in the order of Python's
\* comparison of strings
Alphabetical == <<"amount_gross", "item_name", "payment_status">>

Rank(k) == CHOOSE i \in 1..Len(Alphabetical) : Alphabetical[i] = k

\* sorted(keys): a list of the keys in ascending order
RECURSIVE sorted(_)
sorted(keys) ==
    IF Len(keys) = 0 THEN <<>>
    ELSE LET least == CHOOSE i \in 1..Len(keys) :
                         \A j \in 1..Len(keys) : Rank(keys[i]) <= Rank(keys[j])
         IN <<keys[least]>> \o
            sorted([j \in 1..(Len(keys) - 1) |->
                      IF j < least THEN keys[j] ELSE keys[j + 1]])

\* the parameter string and its digest (lines 133-142) for keys taken in the
\* given order
PayFast_signature_of(passphrase, data, keys) ==
    LET kept == SelectSeq(keys, LAMBDA k : truthy(data[k]))
        pairs == [i \in 1..Len(kept) |->
                     <<kept[i], "=">> \o replace(data[kept[i]], " ", "+")]
        param_string == join(<<"&">>, pairs)
    IN hexdigest("md5", <<>>,
                 IF passphrase # None /\ passphrase # Some(<<>>)
                 THEN param_string \o <<"&", "passphrase", "=">> \o passphrase[1]
                 ELSE param_string)

\* a variant that takes the keys as the mapping iterates, unsorted
PayFast_generate_signature_Unsorted(passphrase, payload) ==
    PayFast_signature_of(passphrase, payload.data, payload.order)

\* payfast.py lines 130-142
PayFast_generate_signature(passphrase, payload) ==
    PayFast_signature_of(passphrase, payload.data, sorted(payload.order))

\* payfast.py line 134: a number has no replace(); the call is reached for
\* the values that line 136 keeps
PayFast_generate_signature_error(data) ==
    IF \E k \in DOMAIN data : truthy(data[k]) /\ IsNumber(data[k])
    THEN "AttributeError" ELSE ""

\* payfast.py lines 85-89
PayFast_verify_webhook(passphrase, payload) ==
    [res |-> IF PayFast_generate_signature_error(AfterPop(payload).data) # ""
             THEN Raised(PayFast_generate_signature_error(AfterPop(payload).data))
             ELSE Returned(signature(payload) =
                        PayFast_generate_signature(passphrase, AfterPop(payload))),
     payload |-> AfterPop(payload)]

\* ozow.py lines 123-127
ordered_fields ==
    <<"SiteCode", "CountryCode", "CurrencyCode", "Amount", "TransactionReference",
      "BankReference", "CancelUrl", "ErrorUrl", "SuccessUrl", "NotifyUrl", "IsTest">>

\* ozow.py lines 121-128
Ozow_generate_hash_string(data) ==
    lower(join(<<>>, [i \in 1..Len(ordered_fields) |->
                         IF ordered_fields[i] \in DOMAIN data
                         THEN data[ordered_fields[i]] ELSE <<>>]))

\* ozow.py line 128: str.join accepts strings only
Ozow_generate_hash_string_error(data) ==
    IF \E i \in 1..Len(ordered_fields) :
          ordered_fields[i] \in DOMAIN data /\ IsNumber(data[ordered_fields[i]])
    THEN "TypeError" ELSE ""

\* ozow.py lines 130-133, for a private key that is a string
Ozow_generate_hash(private_key, input_string) ==
    hexdigest("sha512", <<>>, input_string \o lower(private_key))

\* ozow.py lines 76-81; None has no lower(): AttributeError out of line 132
Ozow_verify_webhook(private_key, payload) ==
    [res |-> IF Ozow_generate_hash_string_error(AfterPop(payload).data) # ""
             THEN Raised(Ozow_generate_hash_string_error(AfterPop(payload).data))
             ELSE IF private_key = None THEN Raised("AttributeError")
             ELSE Returned(sig_lower(signature(payload)) =
                     sig_lower(Ozow_generate_hash(private_key[1],
                         Ozow_generate_hash_string(AfterPop(payload).data)))),
     payload |-> AfterPop(payload)]

\* yoco.py lines 56-63; None has no encode(): AttributeError out of line 59
Yoco_verify_webhook(secret_key, payload) ==
    [res |-> IF secret_key = None THEN Raised("AttributeError")
             ELSE Returned(signature(payload) =
                     hexdigest("hmac-sha256", secret_key[1], payload.data.body)),
     payload |-> payload]

\* a variant that compares the bare digest with the signature
WhatsApp_verify_webhook_Bare(webhook_token, payload) ==
    [res |-> IF webhook_token = None \/ webhook_token = Some(<<>>)
             THEN Raised("ValueError")
             ELSE Returned(hexdigest("hmac-sha256", webhook_token[1],
                                     payload.data.body) = signature(payload)),
     payload |-> payload]

\* whatsapp.py lines 93-104; None and the empty token are both falsy
WhatsApp_verify_webhook(webhook_token, payload) ==
    [res |-> IF webhook_token = None \/ webhook_token = Some(<<>>)
             THEN Raised("ValueError")
             ELSE Returned(WithPrefix("sha256=",
                               hexdigest("hmac-sha256", webhook_token[1],
                                         payload.data.body)) = signature(payload)),
     payload |-> payload]

Providers == {"payfast", "ozow", "yoco", "whatsapp"}

\* ---- process_webhook ------------------------------------------------------
\* dict.get(key, default)
dict_get(map, key, default) == IF key \in DOMAIN map THEN map[key] ELSE default

\* a variant that hands an unknown status word through
status_lookup_PassThrough(map, key) ==
    IF key \in DOMAIN map THEN map[key]
    ELSE IF Len(key) = 1 THEN key[1] ELSE ""

\* status_map.get(<status>, "pending"): payfast.py line 108, ozow.py line
\* 101, yoco.py line 84, whatsapp.py line 141
status_lookup(map, key) == dict_get(map, key, "pending")

\* payfast.py lines 93-98, ozow.py lines 85-91, yoco.py lines 67-71,
\* whatsapp.py lines 131-136
status_map(provider) ==
    CASE provider = "payfast" ->
           (<<"COMPLETE">> :> "completed") @@ (<<"FAILED">> :> "failed")
           @@ (<<"PENDING">> :> "pending") @@ (<<"CANCELLED">> :> "cancelled")
      [] provider = "ozow" ->
           (<<"Complete">> :> "completed") @@ (<<"Cancelled">> :> "cancelled")
           @@ (<<"Error">> :> "failed") @@ (<<"Abandoned">> :> "cancelled")
           @@ (<<"PendingInvestigation">> :> "processing")
      [] provider = "yoco" ->
           (<<"payment.succeeded">> :> "completed") @@ (<<"payment.failed">> :> "failed")
           @@ (<<"payment.cancelled">> :> "cancelled")
      [] provider = "whatsapp" ->
           (<<"sent">> :> "sent") @@ (<<"delivered">> :> "delivered")
           @@ (<<"read">> :> "read") @@ (<<"failed">> :> "failed")

\* float(x) returns for a string of digits and raises ValueError otherwise
Digits == {"0", "1"}
float_ok(x) == IsNumber(x) \/ (Len(x) > 0 /\ \A i \in 1..Len(x) : x[i] \in Digits)

\* json.loads of the raw body, as far as process_webhook reads it: the body
\* {} has no "type" (Yoco) and its status update no "status" (WhatsApp), the
\* body {w} has the event type or the status w
loads(body) == IF Len(body) = 3 THEN [type |-> <<body[2]>>] ELSE <<>>

\* the field that holds the provider's status word
status_field(provider) ==
    CASE provider = "payfast" -> "payment_status"
      [] provider = "ozow" -> "Status"
      [] provider \in {"yoco", "whatsapp"} -> "type"

\* the mapping process_webhook is given: the payload itself for PayFast and
\* Ozow, the parsed body for Yoco and WhatsApp
event_data(provider, payload) ==
    IF provider \in {"yoco", "whatsapp"} THEN loads(payload.data.body)
    ELSE payload.data

Event(status) == [kind |-> "return", status |-> status, error |-> ""]
EventRaised(err) == [kind |-> "raise", status |-> "", error |-> err]
NoEvent == [kind |-> "none", status |-> "", error |-> ""]

\* payfast.py lines 91-115, ozow.py lines 83-106, yoco.py lines 65-90,
\* whatsapp.py lines 129-146: the amount is converted before the status is
\* looked up (PayFast "amount_gross", Ozow "Amount", default 0)
process_webhook(provider, payload) ==
    LET data == event_data(provider, payload)
        amount == IF provider = "payfast" THEN "amount_gross" ELSE "Amount"
    IN IF /\ provider \in {"payfast", "ozow"}
          /\ amount \in DOMAIN data
          /\ ~float_ok(data[amount])
       THEN EventRaised("ValueError")
       ELSE Event(status_lookup(status_map(provider),
                                dict_get(data, status_field(provider), <<>>)))

verify_webhook(provider, secret, payload) ==
    CASE provider = "payfast" -> PayFast_verify_webhook(secret, payload)
      [] provider = "ozow" -> Ozow_verify_webhook(secret, payload)
      [] provider = "yoco" -> Yoco_verify_webhook(secret, payload)
      [] provider = "whatsapp" -> WhatsApp_verify_webhook(secret, payload)

\* the signature of the keyed hash over the raw body, as the provider sends
\* it: the digest with its algorithm prefix
KeyedHashSignature(secret, body) ==
    WithPrefix("sha256=", hexdigest("hmac-sha256", secret, body))

\* the signature a provider that holds `secret` computes for a payload: by the
\* SDK's own signing code for PayFast (create_payment, payfast.py line 66)
\* and Ozow (create_payment, ozow.py lines 57-58)
Sign(provider, secret, payload) ==
    CASE provider = "payfast" -> PayFast_generate_signature(secret, payload)
      [] provider = "ozow" ->
           Ozow_generate_hash(secret[1], Ozow_generate_hash_string(payload.data))
      [] provider \in {"yoco", "whatsapp"} ->
           KeyedHashSignature(secret[1], payload.data.body)

\* ---- webhook inputs --------------------------------------------------------
\* the secret configured in the SDK: passphrase, private_key, secret_key or
\* webhook_token; unset, empty, or one of two that differ in case only
Secrets == {None, Some(<<>>), Some(<<"k">>), Some(<<"K">>)}

\* the secret the provider signs with; only PayFast signs without one
SignerSecrets(provider) ==
    IF provider = "payfast" THEN {None, Some(<<"k">>), Some(<<"K">>)}
    ELSE {Some(<<"k">>), Some(<<"K">>)}

\* the fields of the notifications, without the signature: with a status
\* word of the provider's table, with one outside it, and without status
Payloads(provider) ==
    CASE provider = "payfast" ->
           [amount_gross : {<<>>, <<"1">>},
            item_name : {<<"a">>, <<"a", " ", "b">>, <<"a", "+", "b">>},
            payment_status : {<<"COMPLETE">>, <<"bogus">>}]
           \cup [amount_gross : {<<"1">>}, item_name : {<<"a">>}]
      [] provider = "ozow" ->
           [Amount : {<<"1">>, <<"1", "1">>},
            TransactionReference : {<<"a">>, <<"A">>, <<"1", "a">>},
            Status : {<<"Complete">>, <<"Cancelled">>, <<"bogus">>}]
           \cup [Amount : {<<"1">>}, TransactionReference : {<<"a">>}]
      [] provider = "yoco" ->
           [body : {<<"{", "}">>, <<"{", "bogus", "}">>,
                    <<"{", "payment.succeeded", "}">>}]
      [] provider = "whatsapp" ->
           [body : {<<"{", "}">>, <<"{", "bogus", "}">>, <<"{", "delivered", "}">>}]

\* the orders in which the keys of a mapping with the given keys can have
\* been inserted; the order matters to PayFast's signing alone
Orders(provider, keys) ==
    LET all == {o \in [1..Cardinality(keys) -> keys] :
                   \A i, j \in 1..Cardinality(keys) : o[i] = o[j] => i = j}
    IN IF provider = "payfast" THEN all ELSE {CHOOSE o \in all : TRUE}

\* how the notification reaches the verifier: as the provider signed it,
\* with its signature without the algorithm prefix, in upper case or absent,
\* or with its amount parsed to a number
Forms(provider) ==
    IF provider \in {"yoco", "whatsapp"}
    THEN {"signed", "bare", "upper", "unsigned"}
    ELSE {"signed", "upper", "unsigned", "numeric"}

\* the key of the amount in a PayFast or Ozow payload
amount_field(data) == IF "amount_gross" \in DOMAIN data THEN "amount_gross" ELSE "Amount"

ApplyForm(form, payload) ==
    CASE form = "signed" -> payload
      [] form = "bare" -> [payload EXCEPT !.sig = Some(WithPrefix("", payload.sig[1]))]
      [] form = "upper" -> [payload EXCEPT !.sig = Some([payload.sig[1] EXCEPT !.upper = TRUE])]
      [] form = "unsigned" -> [payload EXCEPT !.sig = None]
      [] form = "numeric" ->
            [payload EXCEPT !.data[amount_field(payload.data)] = number(@)]

\* the values a field of a notification can take
Values(provider, f) == {d[f] : d \in {e \in Payloads(provider) : f \in DOMAIN e}}

VARIABLES
    access_token,   \* self._access_token
    refresh_token,  \* self._refresh_token (None or Some(token))
    expires_at,     \* self._expires_at (None or Some(seconds))
    on_refresh,     \* TRUE iff a callback was given to the constructor
    holder,         \* tasks holding self._refresh_lock
    waiters,        \* FIFO queue of tasks awaiting self._refresh_lock
    now,            \* datetime.now(), seconds
    pc,             \* where each task is
    op,             \* the call each task is in, or made last
    calls,          \* get_headers()/refresh() calls made
    checked,        \* what get_headers saw at its needs_refresh() check
    refreshed,      \* how the refresh() of the task's call ended
    result,         \* what the task's last call returned or raised
    posts,          \* token exchanges started
    responses,      \* token exchanges ended
    overlapped,     \* TRUE while every call was made before any exchange ended
    cb_calls,       \* invocations of the callback
    cb_arg,         \* the TokenPair the callback was invoked with last
    updates,        \* update_tokens calls made
    origin,         \* per field, the value source that wrote it last
    answer,         \* the answer of the token exchange that ended last
    crossed,        \* TRUE iff update_tokens ran during the outstanding exchange
    wh_provider,    \* the provider whose verifier is configured, or "none"
    wh_secret,      \* the secret in the SDK's configuration of that provider
    wh_signer,      \* the secret the provider signs with
    wh_sent,        \* the notification as the provider signed and sent it
    wh_form,        \* how its signature reaches the application
    wh_payload,     \* the notification as the application holds it
    wh_tampered,    \* the field changed on the way, or ""
    wh_results,     \* what the verify_webhook calls returned or raised
    wh_event,       \* what process_webhook returned or raised
    wh_gate         \* the verify_webhook calls made before process_webhook

authVars == <<access_token, refresh_token, expires_at, on_refresh, holder, waiters,
              now, pc, op, calls, checked, refreshed, result, posts, responses,
              overlapped, cb_calls, cb_arg, updates, origin, answer, crossed>>

hookVars == <<wh_provider, wh_secret, wh_signer, wh_sent, wh_form, wh_payload,
              wh_tampered, wh_results, wh_event, wh_gate>>

vars == <<authVars, hookVars>>

State == <<access_token, refresh_token, expires_at>>

SetState(s) ==
    /\ access_token' = s[1]
    /\ refresh_token' = s[2]
    /\ expires_at' = s[3]

\* no webhook is handled
NoHooks ==
    /\ wh_provider = "none"
    /\ wh_secret = None
    /\ wh_signer = None
    /\ wh_sent = NoPayload
    /\ wh_form = "signed"
    /\ wh_payload = NoPayload
    /\ wh_tampered = ""
    /\ wh_results = <<>>
    /\ wh_event = NoEvent
    /\ wh_gate = 0

Init ==
    /\ NoHooks
    /\ access_token = InitAccess
    /\ refresh_token \in {None, Some(InitRefresh)}
    /\ expires_at \in InitExpiries
    /\ on_refresh \in BOOLEAN
    /\ holder = {}
    /\ waiters = <<>>
    /\ now = 0
    /\ pc = [c \in Callers |-> "idle"]
    /\ op = [c \in Callers |-> "none"]
    /\ calls = 0
    /\ checked = [c \in Callers |-> ""]
    /\ refreshed = [c \in Callers |-> ""]
    /\ result = [c \in Callers |-> Pending]
    /\ posts = 0
    /\ responses = 0
    /\ overlapped = TRUE
    /\ cb_calls = 0
    /\ cb_arg = NoPair
    /\ updates = 0
    /\ origin = <<InitSrc, InitSrc, InitSrc>>
    /\ answer = NoAnswer
    /\ crossed = FALSE

\* ---- the code of refresh(), as functions ----------------------------------
\* lines 75-80: client.post raises on a transport error, raise_for_status on
\* a non-2xx answer, response.json() on a body that is not JSON
ExchangeError(resp) ==
    IF resp.status = "transport" THEN "TransportError"
    ELSE IF resp.status = "non2xx" THEN "HTTPStatusError"
    ELSE IF ~resp.json_ok THEN "JSONDecodeError"
    ELSE ""

\* lines 82-84: three assignments in sequence, each reading one key of data;
\* a missing key raises KeyError at its assignment, after the earlier ones ran
StateWrite(st, org, data, t, src) ==
    IF data.access_token = None
    THEN [st |-> st, org |-> org, err |-> "KeyError", wrote |-> FALSE]
    ELSE IF data.refresh_token = None
    THEN [st |-> <<data.access_token[1], st[2], st[3]>>,
          org |-> <<src, org[2], org[3]>>, err |-> "KeyError", wrote |-> TRUE]
    ELSE IF data.expires_in = None
    THEN [st |-> <<data.access_token[1], data.refresh_token, st[3]>>,
          org |-> <<src, src, org[3]>>, err |-> "KeyError", wrote |-> TRUE]
    ELSE [st |-> <<data.access_token[1], data.refresh_token,
                   Some(t + data.expires_in[1])>>,
          org |-> <<src, src, src>>, err |-> "", wrote |-> TRUE]

\* a variant that drops the refresh token when the exchange failed
AfterExchange_ClearsOnError(st, org, resp, t, src) ==
    IF ExchangeError(resp) # ""
    THEN [st |-> <<st[1], None, st[3]>>, org |-> <<org[1], src, org[3]>>,
          err |-> ExchangeError(resp), wrote |-> TRUE]
    ELSE StateWrite(st, org, resp.data, t, src)

\* lines 74-84: the effect of the answer of the exchange on the state
AfterExchange(st, org, resp, t, src) ==
    IF ExchangeError(resp) # ""
    THEN [st |-> st, org |-> org, err |-> ExchangeError(resp), wrote |-> FALSE]
    ELSE StateWrite(st, org, resp.data, t, src)

\* a variant that reports to the callback whenever the exchange ended
CallsBack_Always(err, cb) == cb

\* line 86, reached when lines 74-84 raised nothing: `if self._on_refresh`
CallsBack(err, cb) == err = "" /\ cb

\* a variant that puts the access token of the constructor back when the
\* callback raised
AfterCallback_RollsBack(st, ok) ==
    IF ok THEN st ELSE <<InitAccess, st[2], st[3]>>

\* line 92: the await of the callback is the last statement of refresh(), in
\* no try block; the state stays as lines 82-84 wrote it, whether the
\* callback returns (ok) or raises
AfterCallback(st, ok) == st

\* a variant that never makes a caller wait
CanAcquire_Always(h, w) == TRUE

\* asyncio.Lock.acquire without suspending: lock free and nobody queued
CanAcquire(h, w) == h = {} /\ w = <<>>

\* a variant that releases only when the body returned
aexit_KeepsOnError(h, c, err) == IF err # "" THEN h ELSE h \ {c}

\* `async with self._refresh_lock`: __aexit__ releases however the body ended
aexit(h, c, err) == h \ {c}

\* a variant that swallows the exception of refresh()
get_headers_result_Swallows(err, tok) == Headers(tok)

\* lines 53-55: an exception of refresh() propagates, otherwise the header
\* is built from the access token as it is when refresh() returns
get_headers_result(err, tok) ==
    IF err # "" THEN Raises(err) ELSE Headers(tok)

refresh_result(err) ==
    IF err # "" THEN Raises(err) ELSE ReturnsNone

\* ---- steps ----------------------------------------------------------------
\* the refresh() of task c, in call o, ends with err ("" = returns) while the
\* lock is held by the tasks h; tok is the access token at that moment
EndRefresh(c, o, err, tok, h) ==
    /\ holder' = aexit(h, c, err)
    /\ pc' = [pc EXCEPT ![c] = "idle"]
    /\ refreshed' = [refreshed EXCEPT ![c] = IF err = "" THEN "ok" ELSE "error"]
    /\ result' = [result EXCEPT ![c] =
                    IF o = "get_headers" THEN get_headers_result(err, tok)
                    ELSE refresh_result(err)]

\* a variant that looks for the refresh token before the re-check
WithLock_TokenFirst(c, o, h) ==
    IF NoRefreshToken(refresh_token)
    THEN EndRefresh(c, o, "ValueError", access_token, h) /\ posts' = posts
    ELSE IF ~needs_refresh(expires_at, now)
    THEN EndRefresh(c, o, "", access_token, h) /\ posts' = posts
    ELSE /\ holder' = h
         /\ pc' = [pc EXCEPT ![c] = "posting"]
         /\ posts' = posts + 1
         /\ refreshed' = [refreshed EXCEPT ![c] = ""]
         /\ result' = [result EXCEPT ![c] = Pending]

\* lines 67-78: task c has the lock (the tasks h hold it now)
WithLock(c, o, h) ==
    IF ~needs_refresh(expires_at, now)
    THEN EndRefresh(c, o, "", access_token, h) /\ posts' = posts
    ELSE IF NoRefreshToken(refresh_token)
    THEN EndRefresh(c, o, "ValueError", access_token, h) /\ posts' = posts
    ELSE /\ holder' = h
         /\ pc' = [pc EXCEPT ![c] = "posting"]
         /\ posts' = posts + 1
         /\ refreshed' = [refreshed EXCEPT ![c] = ""]
         /\ result' = [result EXCEPT ![c] = Pending]

\* line 66: enter refresh(); take the lock at once or queue for it
EnterRefresh(c, o) ==
    IF CanAcquire(holder, waiters)
    THEN WithLock(c, o, holder \cup {c}) /\ waiters' = waiters
    ELSE /\ waiters' = Append(waiters, c)
         /\ pc' = [pc EXCEPT ![c] = "waiting"]
         /\ refreshed' = [refreshed EXCEPT ![c] = ""]
         /\ result' = [result EXCEPT ![c] = Pending]
         /\ UNCHANGED <<holder, posts>>

BeginCall(c, o) ==
    /\ pc[c] = "idle"
    /\ calls < MaxCalls
    /\ \A d \in Callers : d < c => op[d] # "none"
    /\ calls' = calls + 1
    /\ op' = [op EXCEPT ![c] = o]
    /\ overlapped' = (overlapped /\ responses = 0)

\* get_headers(), up to its return or its first suspension
GetHeaders(c) ==
    /\ UNCHANGED hookVars
    /\ BeginCall(c, "get_headers")
    /\ IF needs_refresh(expires_at, now)
       THEN /\ checked' = [checked EXCEPT ![c] = "stale"]
            /\ EnterRefresh(c, "get_headers")
       ELSE /\ checked' = [checked EXCEPT ![c] = "fresh"]
            /\ result' = [result EXCEPT ![c] = get_headers_result("", access_token)]
            /\ refreshed' = [refreshed EXCEPT ![c] = ""]
            /\ UNCHANGED <<holder, waiters, pc, posts>>
    /\ UNCHANGED <<access_token, refresh_token, expires_at, on_refresh, now,
                   responses, cb_calls, cb_arg, updates, origin, answer,
                   crossed>>

\* refresh() called directly, up to its return or its first suspension
Refresh(c) ==
    /\ UNCHANGED hookVars
    /\ BeginCall(c, "refresh")
    /\ checked' = [checked EXCEPT ![c] = ""]
    /\ EnterRefresh(c, "refresh")
    /\ UNCHANGED <<access_token, refresh_token, expires_at, on_refresh, now,
                   responses, cb_calls, cb_arg, updates, origin, answer,
                   crossed>>

\* the lock was released and task c is first in the queue: it resumes
Acquire(c) ==
    /\ UNCHANGED hookVars
    /\ pc[c] = "waiting"
    /\ holder = {}
    /\ waiters # <<>>
    /\ Head(waiters) = c
    /\ waiters' = Tail(waiters)
    /\ WithLock(c, op[c], {c})
    /\ UNCHANGED <<access_token, refresh_token, expires_at, on_refresh, now, op,
                   calls, checked, responses, overlapped, cb_calls, cb_arg, updates,
                   origin, answer, crossed>>

\* the POST of task c comes back with resp (lines 75-92, up to the callback)
Response(c, resp) ==
    /\ UNCHANGED hookVars
    /\ pc[c] = "posting"
    /\ LET a == AfterExchange(State, origin, resp, now, <<"exchange", posts>>)
       IN /\ SetState(a.st)
          /\ origin' = a.org
          /\ IF CallsBack(a.err, on_refresh)
             THEN /\ pc' = [pc EXCEPT ![c] = "callback"]
                  /\ cb_calls' = cb_calls + 1
                  /\ cb_arg' = TokenPair(a.st)
                  /\ UNCHANGED <<holder, refreshed, result>>
             ELSE /\ EndRefresh(c, op[c], a.err, a.st[1], holder)
                  /\ UNCHANGED <<cb_calls, cb_arg>>
    /\ responses' = responses + 1
    /\ answer' = resp
    /\ crossed' = FALSE
    /\ UNCHANGED <<on_refresh, waiters, now, op, calls, checked, posts,
                   overlapped, updates>>

\* the callback awaited at line 92 returns (ok) or raises
CallbackDone(c, ok) ==
    /\ UNCHANGED hookVars
    /\ pc[c] = "callback"
    /\ SetState(AfterCallback(State, ok))
    /\ EndRefresh(c, op[c], IF ok THEN "" ELSE "CallbackError",
                  AfterCallback(State, ok)[1], holder)
    /\ UNCHANGED <<on_refresh, waiters,
                   now, op, calls, checked, posts, responses, overlapped, cb_calls, cb_arg,
                   updates, origin, answer, crossed>>

\* update_tokens(p): synchronous, it runs between two steps of the tasks
UpdateTokens(p) ==
    /\ UNCHANGED hookVars
    /\ updates < MaxUpdates
    /\ SetState(<<p.access_token, p.refresh_token, p.expires_at>>)
    /\ origin' = <<<<"update", updates + 1>>, <<"update", updates + 1>>,
                   <<"update", updates + 1>>>>
    /\ updates' = updates + 1
    /\ crossed' = (\E c \in Callers : pc[c] = "posting")
    /\ UNCHANGED <<on_refresh, holder, waiters, now, pc, op, calls, checked,
                   refreshed, result, posts, responses, overlapped, cb_calls, cb_arg,
                   answer>>

\* the clock advances by one second
Tick ==
    /\ UNCHANGED hookVars
    /\ now < MaxNow
    /\ now' = now + 1
    /\ UNCHANGED <<access_token, refresh_token, expires_at, on_refresh, holder,
                   waiters, pc, op, calls, checked, refreshed, result, posts,
                   responses, overlapped, cb_calls, cb_arg, updates, origin, answer,
                   crossed>>

Next ==
    \/ \E c \in Callers : GetHeaders(c)
    \/ \E c \in Callers : Refresh(c)
    \/ \E c \in Callers : Acquire(c)
    \/ \E c \in Callers : \E resp \in Responses(posts) : Response(c, resp)
    \/ \E c \in Callers : \E ok \in BOOLEAN : CallbackDone(c, ok)
    \/ \E p \in UpdatePairs(updates + 1) : UpdateTokens(p)
    \/ Tick

Spec == Init /\ [][Next]_vars

\* The event loop runs a task whose lock future was set; every token exchange
\* and every callback ends.
Fairness ==
    /\ \A c \in Callers : WF_vars(Acquire(c))
    /\ \A c \in Callers : WF_vars(\E resp \in Responses(posts) : Response(c, resp))
    /\ \A c \in Callers : WF_vars(\E ok \in BOOLEAN : CallbackDone(c, ok))

FairSpec == Spec /\ Fairness

\* ---- webhooks: the steps ---------------------------------------------------
\* the credential provider as constructed without refresh token, expiry and
\* callback; no step of the webhooks touches it
TokenIdle ==
    /\ access_token = InitAccess
    /\ refresh_token = None
    /\ expires_at = None
    /\ on_refresh = FALSE
    /\ holder = {}
    /\ waiters = <<>>
    /\ now = 0
    /\ pc = [c \in Callers |-> "idle"]
    /\ op = [c \in Callers |-> "none"]
    /\ calls = 0
    /\ checked = [c \in Callers |-> ""]
    /\ refreshed = [c \in Callers |-> ""]
    /\ result = [c \in Callers |-> Pending]
    /\ posts = 0
    /\ responses = 0
    /\ overlapped = TRUE
    /\ cb_calls = 0
    /\ cb_arg = NoPair
    /\ updates = 0
    /\ origin = <<InitSrc, InitSrc, InitSrc>>
    /\ answer = NoAnswer
    /\ crossed = FALSE

\* one provider is configured in the SDK with one secret; the provider signs
\* with its own; nothing was delivered yet
HookInit ==
    /\ TokenIdle
    /\ wh_provider \in Providers
    /\ wh_secret \in Secrets
    /\ wh_signer \in SignerSecrets(wh_provider)
    /\ wh_sent = NoPayload
    /\ wh_form = "signed"
    /\ wh_payload = NoPayload
    /\ wh_tampered = ""
    /\ wh_results = <<>>
    /\ wh_event = NoEvent
    /\ wh_gate = 0

\* the provider signs the notification with fields data and sends it; it
\* reaches the verifier in the given form
Deliver(data, order, form) ==
    /\ wh_sent = NoPayload
    /\ form = "numeric" => float_ok(data[amount_field(data)])
    /\ wh_sent' = [data |-> data, order |-> order,
                   sig |-> Some(Sign(wh_provider, wh_signer,
                                     [data |-> data, order |-> order, sig |-> None]))]
    /\ wh_form' = form
    /\ wh_payload' = ApplyForm(form, wh_sent')
    /\ UNCHANGED <<wh_provider, wh_secret, wh_signer, wh_tampered, wh_results,
                   wh_event, wh_gate>>
    /\ UNCHANGED authVars

\* before the application verifies or processes it, the value of field f of
\* the notification, whose signature comes as it was computed, is replaced
\* by v, another value
Tamper(f, v) ==
    /\ wh_payload # NoPayload
    /\ wh_form = "signed"
    /\ wh_tampered = ""
    /\ wh_results = <<>>
    /\ wh_event = NoEvent
    /\ v # wh_payload.data[f]
    /\ wh_payload' = [wh_payload EXCEPT !.data[f] = v]
    /\ wh_tampered' = f
    /\ UNCHANGED <<wh_provider, wh_secret, wh_signer, wh_sent, wh_form, wh_results,
                   wh_event, wh_gate>>
    /\ UNCHANGED authVars

\* the application calls verify_webhook on the payload it holds
Verify ==
    /\ wh_payload # NoPayload
    /\ Len(wh_results) < MaxVerifies
    /\ LET v == verify_webhook(wh_provider, wh_secret, wh_payload)
       IN /\ wh_results' = Append(wh_results, v.res)
          /\ wh_payload' = v.payload
    /\ UNCHANGED <<wh_provider, wh_secret, wh_signer, wh_sent, wh_form, wh_tampered,
                   wh_event, wh_gate>>
    /\ UNCHANGED authVars

\* the application calls process_webhook on the payload it holds; nothing in
\* process_webhook asks whether the payload was verified
Process ==
    /\ wh_payload # NoPayload
    /\ wh_event = NoEvent
    /\ wh_event' = process_webhook(wh_provider, wh_payload)
    /\ wh_gate' = Len(wh_results)
    /\ UNCHANGED <<wh_provider, wh_secret, wh_signer, wh_sent, wh_form, wh_payload,
                   wh_tampered, wh_results>>
    /\ UNCHANGED authVars

HookNext ==
    \/ \E data \in Payloads(wh_provider) :
          \E order \in Orders(wh_provider, DOMAIN data) :
              \E form \in Forms(wh_provider) : Deliver(data, order, form)
    \/ \E f \in DOMAIN wh_payload.data : \E v \in Values(wh_provider, f) : Tamper(f, v)
    \/ Verify
    \/ Process

HookSpec == HookInit /\ [][HookNext]_vars

\* ---- properties ------------------------------------------------------------
Posting == {c \in Callers : pc[c] = "posting"}

\* the answers of the exchange, by kind
Failed(resp) == resp.status \in {"transport", "non2xx"}

Malformed(resp) ==
    /\ resp.status = "2xx"
    /\ \/ ~resp.json_ok
       \/ resp.data.access_token = None
       \/ resp.data.refresh_token = None
       \/ resp.data.expires_in = None

WellFormed(resp) == resp.status = "2xx" /\ ~Malformed(resp)

\* task c received the answer of its exchange in this step
Answered(c) == pc[c] = "posting" /\ pc'[c] # "posting"

ExchangeErrors == {"TransportError", "HTTPStatusError", "JSONDecodeError", "KeyError"}

\* every task made one get_headers() call on a stale token, all of them before
\* any exchange ended, all calls are over, no exchange and no callback failed,
\* a refresh token was present, nobody called update_tokens, the clock stood
BurstDone ==
    /\ calls = NumCallers
    /\ overlapped
    /\ updates = 0
    /\ now = 0
    /\ \A c \in Callers :
          /\ op[c] = "get_headers"
          /\ pc[c] = "idle"
          /\ checked[c] = "stale"
          /\ result[c].error \notin ExchangeErrors \cup {"ValueError", "CallbackError"}

\* C1: N concurrent get_headers() calls on a stale token, with a refresh token
\* and a token endpoint that answers successfully, make exactly one token
\* exchange and all return the header with the new access token.
C1_BurstOneExchange ==
    BurstDone =>
        /\ posts = 1
        /\ \A c \in Callers : result[c] = Headers(NewAccess(1))

\* C2: at most one token exchange is outstanding in every reachable state.
C2_OneExchangeInFlight == Cardinality(Posting) <= 1

\* an exchange is outstanding and another task, which found the token stale
\* too, queues for the lock
C2_Witness ==
    /\ \E c \in Callers : pc[c] = "posting"
    /\ \E c \in Callers : pc[c] = "waiting" /\ checked[c] = "stale"

\* C3: when the exchange fails with a transport error or a non-2xx answer, the
\* call raises, the three fields of the state keep their values and the
\* callback is not invoked.
C3_FailedExchangeKeepsState ==
    [][\A c \in Callers :
          (Answered(c) /\ Failed(answer')) =>
              /\ pc'[c] = "idle"
              /\ result'[c].kind = "raise"
              /\ State' = State
              /\ cb_calls' = cb_calls]_vars

\* a call has raised the error of a failed exchange while a callback is set
C3_Witness ==
    /\ on_refresh
    /\ Failed(answer)
    /\ \E c \in Callers :
          /\ pc[c] = "idle"
          /\ result[c].error \in {"TransportError", "HTTPStatusError"}

\* C4: when the endpoint answers 2xx with a malformed body, refresh() fails
\* and none of the three fields of the state is overwritten.
C4_MalformedKeepsState ==
    [][\A c \in Callers :
          (Answered(c) /\ Malformed(answer')) =>
              /\ result'[c].kind = "raise"
              /\ State' = State]_vars

\* C5: right after a refresh() whose exchange succeeded, needs_refresh() is
\* false, whatever expires_in the endpoint returned.
C5_FreshAfterRefresh ==
    [][\A c \in Callers :
          (Answered(c) /\ WellFormed(answer')) =>
              ~needs_refresh(expires_at', now')]_vars

\* C6: in every state a task can read, the three fields of the state come
\* from one source: the constructor, one update_tokens call or one answer.
C6_NoTornState == origin[1] = origin[2] /\ origin[2] = origin[3]

\* C7: every change of the state is made by a task that holds the lock.
C7_MutationUnderGuard ==
    [][State' # State => \E c \in holder : Answered(c)]_vars

\* C8: get_headers() returns a header only if needs_refresh() was false at its
\* check or its refresh() returned without error; when its refresh() fails it
\* raises and returns no header.
C8_NoHeaderAfterFailedRefresh ==
    \A c \in Callers :
        (op[c] = "get_headers" /\ pc[c] = "idle") =>
            /\ result[c].kind = "headers" =>
                  (checked[c] = "fresh" \/ (checked[c] = "stale" /\ refreshed[c] = "ok"))
            /\ refreshed[c] = "error" => result[c].kind = "raise"

\* a get_headers() call found the token stale and its refresh() failed
C8_Witness ==
    \E c \in Callers :
        /\ op[c] = "get_headers"
        /\ pc[c] = "idle"
        /\ checked[c] = "stale"
        /\ refreshed[c] = "error"
        /\ result[c].kind = "raise"

\* C9: the lock is held only by a task inside an exchange or a callback, so it
\* is released however refresh() ended; and every task queued for the lock
\* gets it, given that exchanges and callbacks end.
C9_GuardReleased ==
    /\ [](\A c \in Callers : c \in holder => pc[c] \in {"posting", "callback"})
    /\ \A c \in Callers : (pc[c] = "waiting") ~> (pc[c] # "waiting")

\* a task that queued for the lock holds it now, after the refresh() before it
\* ended with an error
C9_Witness ==
    \E c, d \in Callers :
        /\ c # d
        /\ c \in holder
        /\ pc[c] = "posting"
        /\ pc[d] = "idle"
        /\ result[d].kind = "raise"
        /\ overlapped
        /\ responses >= 1

Called(c) ==
    /\ calls' = calls + 1
    /\ pc[c] = "idle"
    /\ \A d \in Callers \ {c} :
          /\ pc'[d] = pc[d]
          /\ op'[d] = op[d]
          /\ checked'[d] = checked[d]
          /\ result'[d] = result[d]

\* C11: needs_refresh() is true exactly when an expiry is set and the clock
\* has reached the expiry minus five minutes; at that instant it is true, at
\* every earlier instant it is false.
C11_NeedsRefreshBoundary ==
    [][calls' # calls =>
          \E c \in Callers :
              /\ Called(c)
              /\ op'[c] = "get_headers" =>
                    (checked'[c] = "stale" <=>
                        (expires_at # None /\ now >= expires_at[1] - 5 * 60))]_vars

\* get_headers() was called at the boundary instant and went on to the
\* exchange, and another was called one second before the boundary of its
\* token and returned at once
C11_Witness ==
    /\ now = 0
    /\ updates = 1
    /\ expires_at = Some(5 * 60)
    /\ \E c \in Callers : op[c] = "get_headers" /\ checked[c] = "stale" /\ pc[c] = "posting"
    /\ \E c \in Callers : op[c] = "get_headers" /\ checked[c] = "fresh" /\ pc[c] = "idle"

\* refresh() ended in this step for task c as the claim C12 says
FailsUnconfigured(c) ==
    /\ pc'[c] = "idle"
    /\ result'[c] = Raises("ConfigurationError")
    /\ posts' = posts
    /\ cb_calls' = cb_calls
    /\ State' = State

\* C12: refresh() that holds the lock, finds the token still stale and has no
\* refresh token fails with a ConfigurationError, without an exchange, without
\* the callback and without a change of the state.  The task comes to the
\* re-check when it resumes from the queue of the lock, or within its call
\* when the lock is free.
C12_NoRefreshTokenFails ==
    [][(needs_refresh(expires_at, now) /\ NoRefreshToken(refresh_token)) =>
          /\ \A c \in Callers :
                (pc[c] = "waiting" /\ pc'[c] # "waiting") => FailsUnconfigured(c)
          /\ (calls' # calls /\ CanAcquire(holder, waiters)) =>
                \E c \in Callers : Called(c) /\ FailsUnconfigured(c)]_vars

\* C13: the callback is invoked once in the step in which a successful
\* exchange ends, after the state was written, with a TokenPair equal to the
\* values of the answer (access token, refresh token, now + expires_in), which
\* are the state; in no other step is it invoked: not when the exchange
\* failed, not when refresh() returned without an exchange.
C13_CallbackOncePerExchange ==
    [][IF on_refresh /\ \E c \in Callers : Answered(c) /\ WellFormed(answer')
       THEN /\ cb_calls' = cb_calls + 1
            /\ cb_arg'.access_token = answer'.data.access_token[1]
            /\ cb_arg'.refresh_token = answer'.data.refresh_token
            /\ cb_arg'.expires_at = Some(now + answer'.data.expires_in[1])
            /\ State' = <<cb_arg'.access_token, cb_arg'.refresh_token,
                          cb_arg'.expires_at>>
       ELSE /\ cb_calls' = cb_calls
            /\ cb_arg' = cb_arg]_vars

\* the callback was invoked once, with the pair of the first exchange; the
\* second exchange failed and invoked nothing
C13_Witness ==
    /\ cb_calls = 1
    /\ responses = 2
    /\ ~WellFormed(answer)
    /\ cb_arg = TokenPair(<<NewAccess(1), Some(NewRefresh(1)), Some(Buffer + 1)>>)

\* C14: when the callback raises after a successful exchange, the state is
\* not rolled back: the step in which the callback fails leaves the three
\* fields as they are, and a get_headers() call made after that exchange
\* returns the header with the access token of the exchange.
C14_NoRollback ==
    /\ [][\A c \in Callers :
             (pc[c] = "callback" /\ pc'[c] = "idle"
                                 /\ result'[c].error = "CallbackError") =>
                 State' = State]_vars
    /\ [](\A c, d \in Callers :
             (/\ c # d
              /\ pc[c] = "idle" /\ result[c].error = "CallbackError"
              /\ posts = 1 /\ updates = 0 /\ calls = 2 /\ ~overlapped
              /\ pc[d] = "idle" /\ op[d] = "get_headers") =>
                 /\ access_token = answer.data.access_token[1]
                 /\ refresh_token = answer.data.refresh_token
                 /\ result[d] = Headers(answer.data.access_token[1]))

\* the callback raised in the call of one task, and the get_headers() call
\* another task made after the exchange has returned
C14_Witness ==
    \E c, d \in Callers :
        /\ c # d
        /\ pc[c] = "idle" /\ result[c].error = "CallbackError"
        /\ posts = 1 /\ updates = 0 /\ calls = 2 /\ ~overlapped
        /\ pc[d] = "idle" /\ op[d] = "get_headers"
        /\ result[d].kind = "headers"

\* ---- properties of the webhook verifiers -----------------------------------
\* the notification reached the application as it was signed and sent, and
\* was verified
VerifiedAsSent == wh_form = "signed" /\ wh_tampered = "" /\ Len(wh_results) >= 1

\* a field of the notification was changed on the way, and it was verified
VerifiedTampered == wh_form = "signed" /\ wh_tampered # "" /\ Len(wh_results) >= 1

\* C15: for each of the four verifiers, every payload and every secret, the
\* payload with the signature its provider computes under that secret is
\* accepted by the verifier configured with the same secret.
C15_RoundTrip ==
    (VerifiedAsSent /\ wh_secret = wh_signer) => wh_results[1] = Returned(TRUE)

\* C16: an Ozow payload that is accepted is rejected once the value of one
\* of its fields other than Hash was changed.
C16_OzowTamperDetected ==
    (/\ wh_provider = "ozow"
     /\ VerifiedTampered
     /\ Ozow_verify_webhook(wh_secret, wh_sent).res = Returned(TRUE)) =>
        wh_results[1] = Returned(FALSE)

\* C17: a PayFast payload that is accepted is rejected once the value of one
\* of its fields other than signature was changed.
C17_PayFastTamperDetected ==
    (/\ wh_provider = "payfast"
     /\ VerifiedTampered
     /\ PayFast_verify_webhook(wh_secret, wh_sent).res = Returned(TRUE)) =>
        wh_results[1] = Returned(FALSE)

\* a secret that is set: a string that is not empty
Configured(secret) == secret # None /\ secret # Some(<<>>)

\* C18: a payload signed under one secret is rejected by the Ozow, PayFast
\* and Yoco verifiers configured with any other secret.
C18_SecretBinding ==
    (/\ wh_provider \in {"ozow", "payfast", "yoco"}
     /\ VerifiedAsSent
     /\ Configured(wh_signer) /\ Configured(wh_secret)
     /\ wh_secret # wh_signer) =>
        wh_results[1] = Returned(FALSE)

\* C19: verify_webhook of PayFast and Ozow leaves the payload mapping as it
\* found it, and a second call on the same payload returns what the first
\* call returned.
C19_VerifyLeavesPayload ==
    /\ [][(wh_provider \in {"payfast", "ozow"} /\ wh_results' # wh_results) =>
             wh_payload' = wh_payload]_vars
    /\ [](Len(wh_results) >= 2 => wh_results[2] = wh_results[1])

\* C20: the Ozow, Yoco and WhatsApp verifiers whose secret is unset or empty
\* raise a configuration error (WhatsApp's ValueError "Webhook token not
\* configured" is taken for one) for every payload and signature, and return
\* neither true nor false.
C20_FailsClosed ==
    (/\ wh_provider \in {"ozow", "yoco", "whatsapp"}
     /\ ~Configured(wh_secret)) =>
        \A i \in 1..Len(wh_results) :
            /\ wh_results[i].kind = "raise"
            /\ wh_results[i].error \in {"ConfigurationError", "ValueError"}

\* the notification as it was when verify_webhook was called first: its
\* fields as held now, its signature in the form it came in
Verified == ApplyForm(wh_form, [wh_payload EXCEPT !.sig = wh_sent.sig])

\* C21: WhatsApp.verify_webhook with a configured token returns true exactly
\* when the signature is "sha256=" followed by the lower-case hex HMAC-SHA256
\* of the raw body under the token; the bare digest and a prefixed other
\* digest are rejected.
C21_WhatsAppPrefixed ==
    (wh_provider = "whatsapp" /\ Configured(wh_secret) /\ Len(wh_results) >= 1) =>
        wh_results[1] =
            Returned(signature(Verified) =
                        [prefix |-> "sha256=", alg |-> "hmac-sha256",
                         key |-> wh_secret[1], msg |-> wh_payload.data.body,
                         upper |-> FALSE])

\* the bare digest of the body under the configured token was rejected
C21_Witness ==
    /\ wh_provider = "whatsapp"
    /\ wh_secret = wh_signer
    /\ wh_form = "bare"
    /\ wh_tampered = ""
    /\ Len(wh_results) >= 1
    /\ wh_results[1] = Returned(FALSE)

\* C22: Yoco.verify_webhook returns true for the signature "sha256=" followed
\* by the hex HMAC-SHA256 of the raw body under the configured secret key,
\* and false for a prefixed signature with any other digest.
C22_YocoPrefixed ==
    (/\ wh_provider = "yoco" /\ Configured(wh_secret) /\ Len(wh_results) >= 1
     /\ signature(Verified).prefix = "sha256=") =>
        wh_results[1] =
            Returned(signature(Verified) =
                        [prefix |-> "sha256=", alg |-> "hmac-sha256",
                         key |-> wh_secret[1], msg |-> wh_payload.data.body,
                         upper |-> FALSE])

\* the key=value pair of field k in a PayFast parameter string, if any
PairOf(data, k) ==
    IF k \in DOMAIN data /\ data[k] # <<>>
    THEN << <<k, "=">> \o replace(data[k], " ", "+") >>
    ELSE <<>>

\* C23: the PayFast signature is the MD5 of the key=value pairs of the
\* non-empty fields other than signature, in lexicographic order of the keys,
\* joined by "&", spaces written as "+", followed by "&passphrase=<secret>"
\* exactly when a passphrase is configured.  It is the same for every order
\* of insertion of the keys and for every computation, and verify_webhook
\* returns true exactly for the signature equal to it character by character.
C23_PayFastCanonical ==
    (wh_provider = "payfast" /\ Len(wh_results) >= 1) =>
        LET pairs == PairOf(wh_payload.data, "amount_gross")
                       \o PairOf(wh_payload.data, "item_name")
                       \o PairOf(wh_payload.data, "payment_status")
            suffix == IF Configured(wh_secret)
                      THEN <<"&", "passphrase", "=">> \o wh_secret[1] ELSE <<>>
            canonical == [prefix |-> "", alg |-> "md5", key |-> <<>>,
                          msg |-> join(<<"&">>, pairs) \o suffix, upper |-> FALSE]
        IN /\ wh_results[1] = Returned(signature(Verified) = canonical)
           /\ (wh_tampered = "" /\ wh_secret = wh_signer) =>
                 wh_sent.sig = Some(canonical)

\* the closed sets of normalized statuses
PaymentStatuses == {"pending", "processing", "completed", "failed", "cancelled"}
MessageStatuses == {"pending", "sent", "delivered", "read", "failed"}

\* the status word of the payload that process_webhook was given, <<>> if
\* the payload has none
StatusWord ==
    dict_get(event_data(wh_provider, wh_payload), status_field(wh_provider), <<>>)

\* process_webhook was called on a payload whose amount, if it has one, is a
\* string of digits
Processed ==
    /\ wh_event # NoEvent
    /\ wh_provider = "payfast" => float_ok(wh_payload.data.amount_gross)
    /\ wh_provider = "ozow" => float_ok(wh_payload.data.Amount)

\* C24: for every provider and every status word, an absent one included,
\* process_webhook returns a status of the provider's closed set, and a
\* word outside the provider's table gives pending and no error.
C24_StatusNormalized ==
    Processed =>
        /\ wh_event.kind = "return"
        /\ wh_event.status \in
              (IF wh_provider = "whatsapp" THEN MessageStatuses ELSE PaymentStatuses)
        /\ StatusWord \notin DOMAIN status_map(wh_provider)
              => wh_event.status = "pending"

\* a status word outside the table was mapped to pending
C24_Witness ==
    /\ Processed
    /\ StatusWord = <<"bogus">>
    /\ wh_event = Event("pending")

\* C25: when update_tokens(pair) ran while a token exchange was outstanding,
\* the answer of that exchange leaves the state as update_tokens wrote it.
C25_UpdateNotOverwritten ==
    [][\A c \in Callers : (Answered(c) /\ crossed) => State' = State]_vars

\* C26: when the exchange succeeded and the callback ends, failing or not,
\* the get_headers() call that triggered the refresh returns the
\* Authorization header with the access token the state then holds (the one
\* of the answer, unless update_tokens ran since).
C26_CallbackBestEffort ==
    [][\A c \in Callers :
          (pc[c] = "callback" /\ pc'[c] # "callback" /\ op[c] = "get_headers") =>
              result'[c] = Headers(access_token')]_vars

\* C27: process_webhook gives a result for a payload only after
\* verify_webhook returned true for that payload.
C27_ProcessedBehindGate ==
    wh_event.kind = "return" =>
        \E i \in 1..wh_gate : wh_results[i] = Returned(TRUE)

\* C28: for every PayFast or Ozow payload whose values are strings or
\* numbers, with or without its signature, verify_webhook of a configured
\* client returns a boolean.
C28_VerifyTotal ==
    \A i \in 1..Len(wh_results) :
        (wh_provider \in {"payfast", "ozow"} /\ Configured(wh_secret)) =>
            wh_results[i].kind = "return"

\* every task made one get_headers() call on a stale token with a refresh
\* token, all of them before any exchange ended, all calls are over, nobody
\* called update_tokens and no exchange succeeded (a successful one writes
\* the expiry)
FailedBurstDone ==
    /\ calls = NumCallers
    /\ overlapped
    /\ updates = 0
    /\ refresh_token # None
    /\ origin[3] = InitSrc
    /\ \A c \in Callers :
          op[c] = "get_headers" /\ pc[c] = "idle" /\ checked[c] = "stale"

\* C29: N concurrent get_headers() calls on a stale token whose exchanges all
\* fail make N exchanges, each call fails with the error of its exchange, and
\* the state afterwards is the state before.
C29_FailedBurstRepeats ==
    FailedBurstDone =>
        /\ posts = NumCallers
        /\ \A c \in Callers :
              result[c].kind = "raise" /\ result[c].error \in ExchangeErrors
        /\ origin = <<InitSrc, InitSrc, InitSrc>>
        /\ access_token = InitAccess
        /\ refresh_token = Some(InitRefresh)

\* C30: refresh() that comes to its re-check while needs_refresh() is false
\* returns None, with or without a refresh token: no exchange starts, the
\* callback is not invoked and the state is unchanged.  The task comes to the
\* re-check when it resumes from the queue of the lock, or within its call
\* when the lock is free.
C30_FreshRefreshNoop ==
    [][~needs_refresh(expires_at, now) =>
          /\ \A c \in Callers :
                (pc[c] = "waiting" /\ pc'[c] # "waiting" /\ op[c] = "refresh") =>
                    /\ pc'[c] = "idle"
                    /\ result'[c] = ReturnsNone
                    /\ posts' = posts
                    /\ cb_calls' = cb_calls
                    /\ State' = State
          /\ calls' # calls =>
                /\ posts' = posts
                /\ cb_calls' = cb_calls
                /\ State' = State
                /\ CanAcquire(holder, waiters) =>
                      \E c \in Callers :
                          /\ Called(c)
                          /\ op'[c] = "refresh" =>
                                (pc'[c] = "idle" /\ result'[c] = ReturnsNone)]_vars

\* refresh() was called without refresh token on a token that has an expiry
\* and is not stale, and returned None
C30_Witness ==
    /\ refresh_token = None
    /\ expires_at # None
    /\ ~needs_refresh(expires_at, now)
    /\ updates = 0
    /\ posts = 0
    /\ \E c \in Callers : op[c] = "refresh" /\ pc[c] = "idle" /\ result[c] = ReturnsNone

====
